---------------------------- MODULE Spec2Model ----------------------------
(***************************************************************************)
(* Model of ksys_app/db.py: the process-wide asyncpg pool (get_pool,       *)
(* close_pool) and the query executors (q, execute_query).                 *)
(*                                                                         *)
(* Tasks are asyncio tasks of one event loop.  A task runs without         *)
(* interruption from one await to the next, so every action below is the   *)
(* code between two suspension points; the outcome of the awaited          *)
(* operation (create_pool, pool.acquire, conn.fetch / conn.execute,        *)
(* asyncpg.connect, pool.close) is chosen when the task resumes.           *)
(* Returning a pooled connection (exit of `async with pool.acquire()`) and *)
(* conn.close() of a direct connection are clean-up steps that complete.   *)
(* TS_DSN is read from the environment, which does not change during a     *)
(* run.                                                                    *)
(***************************************************************************)
EXTENDS Integers, Sequences, FiniteSets, TLC

(* ------------------------------ bounds -------------------------------- *)
NumTasks == 2
MaxPools == 2

(* -------------------------- program constants -------------------------- *)
None == 0
max_size == 10

Tasks == 1..NumTasks
Pools == 1..MaxPools

Ops == {"get_pool", "q", "execute_query", "close_pool"}
QueryOps == {"q", "execute_query"}

(* An error is <<where it was raised, exception class>>. *)
NoErr == <<"none", "none">>
ConfigErr == <<"dsn", "Config">>
AwaitFailures == {"Timeout", "Other"}
AwaitOutcomes == {"ok"} \cup AwaitFailures

VARIABLES
    dsn,            \* TRUE iff os.environ["TS_DSN"] is set and non-empty
    GLOBAL_POOL,    \* _GLOBAL_POOL: None or the id of a pool
    lockHolder,     \* _POOL_LOCK: None or the task holding it
    lockWaiters,    \* _POOL_LOCK: FIFO queue of tasks waiting in acquire()
    poolState,      \* per pool id: "unbuilt", "open" or "closed"
    borrowed,       \* per pool id: connections currently borrowed
    directOpen,     \* direct (non-pooled) connections currently open
    task,           \* per task: the frame of the call it is running
    fnIn,           \* arguments and environment of one call taken on its own
    fnOut           \* what that call did and returned

vars == <<dsn, GLOBAL_POOL, lockHolder, lockWaiters, poolState, borrowed,
          directOpen, task, fnIn, fnOut>>

(* No call is being looked at on its own. *)
NoInput == [fn |-> "none"]
NoOutput == [kind |-> "none"]

(* pool.close() marks the pool closed when it completes, whether it        *)
(* returns or raises, and close_pool returns in the same step: the closed  *)
(* pools are the pools on which a close_pool() call has returned.          *)
ClosedPools == {p \in Pools : poolState[p] = "closed"}

(* The frame of a task that runs no call. *)
IdleFrame ==
    [pc |-> "idle", op |-> "none", pool |-> None, target |-> None,
     result |-> "none", raised |-> NoErr, firstFail |-> NoErr,
     directFail |-> NoErr, direct |-> 0, banned |-> {}, stale |-> FALSE]

(* The frame of a call that has just been entered.  Besides the locals of  *)
(* the call (pool, target) it records what happened in the call:           *)
(*   firstFail   the exception that left the pooled part of the call (the  *)
(*               `e` of the except clause, unbound when the clause of the  *)
(*               fallback is left),                                        *)
(*   direct      the number of asyncpg.connect invocations,                *)
(*   directFail  the exception of the direct-connection attempt,           *)
(*   banned      the pools on which close_pool() had already returned when *)
(*               the call began (kept until get_pool returns),             *)
(*   stale       whether get_pool returned one of those pools.             *)
NewCall(o) ==
    [IdleFrame EXCEPT !.pc = "start", !.op = o,
                      !.banned = IF o = "close_pool" THEN {} ELSE ClosedPools]

Init ==
    /\ dsn \in BOOLEAN
    /\ GLOBAL_POOL = None
    /\ lockHolder = None
    /\ lockWaiters = <<>>
    /\ poolState = [p \in Pools |-> "unbuilt"]
    /\ borrowed = [p \in Pools |-> 0]
    /\ directOpen = 0
    /\ task = [t \in Tasks |-> IdleFrame]
    /\ fnIn = NoInput
    /\ fnOut = NoOutput

(* ------------------------------ helpers -------------------------------- *)
NumBuilt == Cardinality({p \in Pools : poolState[p] # "unbuilt"})

InCall(t) == task[t].pc \notin {"idle", "done"}

(* _dsn(): succeeds iff TS_DSN is set and non-empty. *)
DsnOkAlways == TRUE
DsnOk == dsn

(* The call returns normally / raises e to its caller. *)
(* The locals of the call go with its frame; for get_pool, `pool` is the   *)
(* value returned.                                                         *)
Locals(r) == [r EXCEPT !.pool = IF r.op = "get_pool" THEN @ ELSE None,
                       !.target = None, !.banned = {}, !.stale = FALSE]
Return(r) == [Locals(r) EXCEPT !.pc = "done", !.result = "ok"]
Raise(r, e) == [Locals(r) EXCEPT !.pc = "done", !.result = "err",
                                 !.raised = e]

(* `except asyncio.TimeoutError` of q / execute_query: which errors raised *)
(* inside the outer try block are routed to the direct-connection path.    *)
TakesFallbackAnyError(o, e) == o \in QueryOps
TakesFallback(o, e) == o \in QueryOps /\ e[2] = "Timeout"

(* The direct-connection attempt failed with e: `except Exception as e2:   *)
(* ... raise`.                                                             *)
DirectFailedRetry(r, e) ==
    IF r.direct < 2
    THEN [r EXCEPT !.directFail = e, !.pc = "connecting", !.direct = @ + 1]
    ELSE Raise([r EXCEPT !.directFail = e, !.firstFail = NoErr], e)
DirectFailed(r, e) == Raise([r EXCEPT !.directFail = e, !.firstFail = NoErr], e)

(* The direct-connection attempt succeeded: the rows are returned from     *)
(* inside the except clause.                                               *)
DirectSucceeded(r) == Return([r EXCEPT !.firstFail = NoErr])

(* An exception e leaves the pooled part of the call (the outer try block  *)
(* of q / execute_query, or get_pool called on its own).                   *)
Fail(r, e) ==
    LET r1 == [r EXCEPT !.firstFail = e, !.pool = None, !.banned = {},
                        !.stale = FALSE] IN
    IF TakesFallback(r.op, e)
    THEN IF DsnOk
         THEN [r1 EXCEPT !.pc = "connecting", !.direct = @ + 1]
         ELSE DirectFailed(r1, ConfigErr)
    ELSE Raise(r1, e)

(* get_pool() returned p to the call. *)
GotPool(r, p) ==
    LET r1 == [r EXCEPT !.pool = p, !.stale = (p \in r.banned),
                        !.banned = {}] IN
    IF r.op = "get_pool"
    THEN Return(r1)
    ELSE [r1 EXCEPT !.pc = "acquiring"]

(* The two tests of the double-checked initialisation. *)
FirstCheck == GLOBAL_POOL = None
SecondCheckSkipped == TRUE
SecondCheck == GLOBAL_POOL = None

(* _POOL_LOCK after the `async with` block is left by task t, normally     *)
(* (out = "ok") or by an exception.                                        *)
LockKeptOnError(t, out) == IF out = "ok" THEN None ELSE t
LockNeverReleased(t, out) == t
LockAfterExit(t, out) == None

(* Task t holds _POOL_LOCK and runs the body of the `async with` block up  *)
(* to the await of create_pool.                                            *)
InLock(t, r) ==
    IF ~SecondCheck
    THEN /\ task' = [task EXCEPT ![t] = GotPool(r, GLOBAL_POOL)]
         /\ lockHolder' = LockAfterExit(t, "ok")
         /\ UNCHANGED GLOBAL_POOL
    ELSE IF ~DsnOk
    THEN /\ task' = [task EXCEPT ![t] = Fail(r, ConfigErr)]
         /\ GLOBAL_POOL' = None
         /\ lockHolder' = LockAfterExit(t, "Config")
    ELSE /\ task' = [task EXCEPT ![t] = [r EXCEPT !.pc = "gp_creating"]]
         /\ lockHolder' = t
         /\ UNCHANGED GLOBAL_POOL

(* ------------------------------ actions -------------------------------- *)
(* Entry of get_pool / q / execute_query up to the first suspension. *)
CallGetPool(t, o) ==
    /\ ~InCall(t)
    /\ o \in Ops \ {"close_pool"}
    /\ LET r == NewCall(o) IN
       IF ~FirstCheck
       THEN /\ task' = [task EXCEPT ![t] = GotPool(r, GLOBAL_POOL)]
            /\ UNCHANGED <<GLOBAL_POOL, lockHolder, lockWaiters>>
       ELSE IF lockHolder # None \/ lockWaiters # <<>>
       THEN /\ task' = [task EXCEPT ![t] = [r EXCEPT !.pc = "gp_waitlock"]]
            /\ lockWaiters' = Append(lockWaiters, t)
            /\ UNCHANGED <<GLOBAL_POOL, lockHolder>>
       ELSE /\ InLock(t, r)
            /\ UNCHANGED lockWaiters
    /\ UNCHANGED <<fnIn, fnOut>>
    /\ UNCHANGED <<dsn, poolState, borrowed, directOpen>>

(* A task waiting in _POOL_LOCK.acquire() is woken and takes the lock. *)
LockWake(t) ==
    /\ task[t].pc = "gp_waitlock"
    /\ lockHolder = None
    /\ lockWaiters # <<>>
    /\ Head(lockWaiters) = t
    /\ lockWaiters' = Tail(lockWaiters)
    /\ InLock(t, task[t])
    /\ UNCHANGED <<fnIn, fnOut>>
    /\ UNCHANGED <<dsn, poolState, borrowed, directOpen>>

(* `await asyncpg.create_pool(...)` completes. *)
CreateDone(t) ==
    /\ task[t].pc = "gp_creating"
    /\ \E out \in AwaitOutcomes :
         IF out = "ok"
         THEN /\ NumBuilt < MaxPools
              /\ LET p == NumBuilt + 1 IN
                 /\ poolState' = [poolState EXCEPT ![p] = "open"]
                 /\ GLOBAL_POOL' = p
                 /\ task' = [task EXCEPT ![t] = GotPool(@, p)]
              /\ lockHolder' = LockAfterExit(t, out)
         ELSE /\ GLOBAL_POOL' = None
              /\ lockHolder' = LockAfterExit(t, out)
              /\ task' = [task EXCEPT ![t] = Fail(@, <<"create", out>>)]
              /\ UNCHANGED poolState
    /\ UNCHANGED <<fnIn, fnOut>>
    /\ UNCHANGED <<dsn, lockWaiters, borrowed, directOpen>>

(* `await pool.acquire()` (entry of `async with pool.acquire() as conn`)    *)
(* completes.  It yields a connection only from an open pool with a free   *)
(* slot.                                                                   *)
AcquireDone(t) ==
    /\ task[t].pc = "acquiring"
    /\ \E out \in AwaitOutcomes :
         LET p == task[t].pool IN
         IF out = "ok"
         THEN /\ poolState[p] = "open"
              /\ borrowed[p] < max_size
              /\ borrowed' = [borrowed EXCEPT ![p] = @ + 1]
              /\ task' = [task EXCEPT ![t] = [@ EXCEPT !.pc = "executing"]]
         ELSE /\ task' = [task EXCEPT ![t] = Fail(@, <<"acquire", out>>)]
              /\ UNCHANGED borrowed
    /\ UNCHANGED <<fnIn, fnOut>>
    /\ UNCHANGED <<dsn, GLOBAL_POOL, lockHolder, lockWaiters, poolState,
                   directOpen>>

(* Exit of `async with pool.acquire() as conn`: the borrowed counter of    *)
(* pool p when the block is left with outcome out.                         *)
BorrowedKeptOnError(p, out) ==
    IF out = "ok" THEN [borrowed EXCEPT ![p] = @ - 1] ELSE borrowed
BorrowedAfterExit(p, out) == [borrowed EXCEPT ![p] = @ - 1]

(* `await conn.fetch(...)` / `await conn.execute(...)` on the pooled       *)
(* connection completes and the `async with` block is left.                *)
ExecDone(t) ==
    /\ task[t].pc = "executing"
    /\ \E out \in AwaitOutcomes :
         /\ borrowed' = BorrowedAfterExit(task[t].pool, out)
         /\ task' = [task EXCEPT ![t] =
                        IF out = "ok" THEN Return(@)
                        ELSE Fail(@, <<"exec", out>>)]
    /\ UNCHANGED <<fnIn, fnOut>>
    /\ UNCHANGED <<dsn, GLOBAL_POOL, lockHolder, lockWaiters, poolState,
                   directOpen>>

(* `await asyncpg.connect(_dsn())` of the fallback completes. *)
ConnectDone(t) ==
    /\ task[t].pc = "connecting"
    /\ \E out \in AwaitOutcomes :
         IF out = "ok"
         THEN /\ directOpen' = directOpen + 1
              /\ task' = [task EXCEPT ![t] =
                             [@ EXCEPT !.pc = "direct_executing"]]
         ELSE /\ task' = [task EXCEPT ![t] =
                             DirectFailed(@, <<"connect", out>>)]
              /\ UNCHANGED directOpen
    /\ UNCHANGED <<fnIn, fnOut>>
    /\ UNCHANGED <<dsn, GLOBAL_POOL, lockHolder, lockWaiters, poolState,
                   borrowed>>

(* `await conn.fetch(...)` / `await conn.execute(...)` on the direct       *)
(* connection completes; the finally clause then awaits conn.close().      *)
DirectExecDone(t) ==
    /\ task[t].pc = "direct_executing"
    /\ \E out \in AwaitOutcomes :
         task' = [task EXCEPT ![t] =
                     [@ EXCEPT !.pc = "direct_closing",
                               !.directFail =
                                   IF out = "ok" THEN NoErr
                                   ELSE <<"direct_exec", out>>]]
    /\ UNCHANGED <<fnIn, fnOut>>
    /\ UNCHANGED <<dsn, GLOBAL_POOL, lockHolder, lockWaiters, poolState,
                   borrowed, directOpen>>

(* Whether the finally clause of the fallback closes the direct            *)
(* connection, given the error (or NoErr) of the execution on it.          *)
ClosesDirectOnSuccessOnly(e) == e = NoErr
ClosesDirect(e) == TRUE

(* `await conn.close()` in the finally clause completes. *)
DirectCloseDone(t) ==
    /\ task[t].pc = "direct_closing"
    /\ directOpen' = IF ClosesDirect(task[t].directFail)
                     THEN directOpen - 1 ELSE directOpen
    /\ task' = [task EXCEPT ![t] =
                   IF @.directFail = NoErr THEN DirectSucceeded(@)
                   ELSE DirectFailed(@, @.directFail)]
    /\ UNCHANGED <<fnIn, fnOut>>
    /\ UNCHANGED <<dsn, GLOBAL_POOL, lockHolder, lockWaiters, poolState,
                   borrowed>>

(* Entry of close_pool up to `await _GLOBAL_POOL.close()`. *)
CallClosePool(t) ==
    /\ ~InCall(t)
    /\ LET r == NewCall("close_pool") IN
       task' = [task EXCEPT ![t] =
                   IF GLOBAL_POOL = None THEN Return(r)
                   ELSE [r EXCEPT !.pc = "closing", !.target = GLOBAL_POOL]]
    /\ UNCHANGED <<fnIn, fnOut>>
    /\ UNCHANGED <<dsn, GLOBAL_POOL, lockHolder, lockWaiters, poolState,
                   borrowed, directOpen>>

(* `await _GLOBAL_POOL.close()` completes.  pool.close() returns once all  *)
(* borrowed connections are back (at once on a pool already closed); when  *)
(* it raises, the error is logged and close_pool returns normally.         *)
CloseDone(t) ==
    /\ task[t].pc = "closing"
    /\ LET p == task[t].target IN
       /\ poolState' = [poolState EXCEPT ![p] = "closed"]
       /\ \/ /\ borrowed[p] = 0
             /\ GLOBAL_POOL' = None
             /\ task' = [task EXCEPT ![t] = Return(@)]
          \/ /\ task' = [task EXCEPT ![t] =
                            Return([@ EXCEPT !.firstFail =
                                                 <<"pool_close", "Other">>])]
             /\ UNCHANGED GLOBAL_POOL
    /\ UNCHANGED <<fnIn, fnOut>>
    /\ UNCHANGED <<dsn, lockHolder, lockWaiters, borrowed, directOpen>>

(* Everything task t does once a call is under way. *)
Step(t) ==
    \/ LockWake(t)
    \/ CreateDone(t)
    \/ AcquireDone(t)
    \/ ExecDone(t)
    \/ ConnectDone(t)
    \/ DirectExecDone(t)
    \/ DirectCloseDone(t)
    \/ CloseDone(t)

(* Tasks issue queries and shut the pool down. *)
Next ==
    \/ \E t \in Tasks, o \in QueryOps : CallGetPool(t, o)
    \/ \E t \in Tasks : CallClosePool(t)
    \/ \E t \in Tasks : Step(t)

Spec == Init /\ [][Next]_vars

(* The pool manager on its own: tasks call get_pool() and close_pool()     *)
(* directly.  The event loop runs every task that is ready, and every      *)
(* awaited operation completes (with a result or an error).                *)
PoolStep(t) ==
    \/ LockWake(t)
    \/ CreateDone(t)
    \/ CloseDone(t)

PoolNext ==
    \/ \E t \in Tasks : CallGetPool(t, "get_pool")
    \/ \E t \in Tasks : CallClosePool(t)
    \/ \E t \in Tasks : PoolStep(t)

PoolSpec == Init /\ [][PoolNext]_vars /\ \A t \in Tasks : WF_vars(PoolStep(t))

(* ----------------------------- properties ------------------------------ *)
Creating == {t \in Tasks : task[t].pc = "gp_creating"}
InGetPool(t) == task[t].pc \in {"gp_waitlock", "gp_creating"}
FallbackPcs == {"connecting", "direct_executing", "direct_closing"}
Quiescent == \A t \in Tasks : ~InCall(t)

(* C1: create_pool is only ever in progress in one task at a time, which   *)
(* holds the lock, and only while the singleton reference is unset; as     *)
(* long as no close_pool() has closed a pool, at most one pool has been    *)
(* built however many tasks raced for it.                                  *)
C1_SinglePoolBuilt ==
    /\ \A t \in Creating : GLOBAL_POOL = None /\ lockHolder = t
    /\ Cardinality(Creating) <= 1
    /\ ClosedPools = {} => NumBuilt <= 1

(* A pool has been built while another racing caller still waits for the   *)
(* lock.                                                                   *)
C1_Witness ==
    /\ GLOBAL_POOL # None
    /\ ClosedPools = {}
    /\ lockWaiters # <<>>

(* C2: every caller that has to wait in get_pool() (for the lock or for    *)
(* create_pool) eventually leaves it, returning a pool unless the          *)
(* construction it waited for or attempted failed; a returned handle is    *)
(* never None, and while no pool has been closed all returned handles are  *)
(* the one pool stored in the singleton reference.                         *)
C2_NoLostCaller ==
    /\ [](\A t \in Tasks :
             (task[t].op = "get_pool" /\ task[t].result = "ok")
                 => /\ task[t].pool # None
                    /\ poolState[task[t].pool] # "unbuilt"
                    /\ (ClosedPools = {} => task[t].pool = GLOBAL_POOL))
    /\ \A t \in Tasks :
           InGetPool(t) ~> (/\ task[t].pc = "done"
                            /\ \/ task[t].result = "ok"
                               \/ task[t].raised[1] = "create")

(* One caller has returned the pool while another one is still queued on   *)
(* the initialisation lock.                                                *)
C2_Witness ==
    \E t, u \in Tasks :
        /\ task[t].op = "get_pool" /\ task[t].result = "ok"
        /\ task[t].pool = GLOBAL_POOL
        /\ task[u].pc = "gp_waitlock"

(* C3: the step in which create_pool fails leaves the singleton reference  *)
(* unset and the lock free and raises the error of create_pool to the      *)
(* caller that attempted it; the reference never designates a pool that    *)
(* was not built, and a waiter that gets the lock while the reference is   *)
(* unset goes on to call create_pool itself.                               *)
C3_FailedCreateResets ==
    /\ [][\A t \in Tasks :
            /\ (task[t].pc = "gp_creating" /\ task'[t].firstFail[1] = "create")
                 => /\ GLOBAL_POOL' = None
                    /\ lockHolder' = None
                    /\ (task[t].op = "get_pool"
                          => /\ task'[t].pc = "done"
                             /\ task'[t].result = "err"
                             /\ task'[t].raised = task'[t].firstFail
                             /\ task'[t].pool = None)
            /\ (/\ task[t].pc = "gp_waitlock"
                /\ task'[t].pc # "gp_waitlock"
                /\ GLOBAL_POOL = None)
                 => task'[t].pc = "gp_creating"]_vars
    /\ [](GLOBAL_POOL # None => poolState[GLOBAL_POOL] # "unbuilt")

(* A get_pool() call has raised the error of create_pool; the reference is *)
(* unset, the lock is free and a waiter is about to retry.                 *)
C3_Witness ==
    \E t \in Tasks :
        /\ task[t].op = "get_pool" /\ task[t].pc = "done"
        /\ task[t].raised[1] = "create"
        /\ GLOBAL_POOL = None /\ lockHolder = None
        /\ lockWaiters # <<>>

(* C4: when TS_DSN is absent or empty, no pool is ever under construction  *)
(* or built, no direct connection is attempted or open, the reference      *)
(* stays unset, the lock is free, and every call that went through         *)
(* get_pool() has raised the configuration error.                          *)
C4_MissingDsnFailsFirst ==
    ~dsn =>
        /\ Creating = {}
        /\ NumBuilt = 0
        /\ GLOBAL_POOL = None
        /\ lockHolder = None
        /\ directOpen = 0
        /\ \A t \in Tasks :
              /\ task[t].direct = 0
              /\ task[t].op \in (QueryOps \cup {"get_pool"})
                   => /\ task[t].pc = "done"
                      /\ task[t].result = "err"
                      /\ task[t].raised = ConfigErr

(* TS_DSN is absent and a call has raised the configuration error. *)
C4_Witness ==
    /\ ~dsn
    /\ \E t \in Tasks : task[t].pc = "done" /\ task[t].raised = ConfigErr

(* C5 (as claimed): no query is handed, by its get_pool(), a pool on which *)
(* a close_pool() call had already returned when the query began.          *)
C5_QueryAfterCloseUsesFreshPool ==
    \A t \in Tasks : ~task[t].stale

(* C6 (as claimed): when close_pool() calls run in sequence (one task, no  *)
(* other task has ever run), each leaves the reference unset.              *)
C6_ClosePoolLeavesRefUnset ==
    \A t \in Tasks :
        (/\ task[t].op = "close_pool"
         /\ task[t].pc = "done"
         /\ \A u \in Tasks \ {t} : task[u].pc = "idle")
            => GLOBAL_POOL = None

(* C7: a call makes at most one direct-connection attempt; after a pool    *)
(* acquire timeout it is in that one attempt; once the attempt has failed  *)
(* nothing but closing the direct connection remains, and the call ends    *)
(* raising the error of the attempt.                                       *)
C7_SingleFallbackAttempt ==
    \A t \in Tasks :
        /\ task[t].direct <= 1
        /\ task[t].firstFail = <<"acquire", "Timeout">>
             => task[t].direct = 1 /\ task[t].pc \in FallbackPcs
        /\ task[t].directFail # NoErr
             => /\ task[t].direct = 1
                /\ task[t].pc \in {"direct_closing", "done"}
                /\ task[t].pc = "done"
                     => task[t].result = "err"
                        /\ task[t].raised = task[t].directFail

(* After a pool acquire timeout the execution on the direct connection has *)
(* failed.                                                                 *)
C7_Witness ==
    \E t \in Tasks :
        /\ task[t].firstFail = <<"acquire", "Timeout">>
        /\ task[t].directFail[1] = "direct_exec"

(* C8 (as claimed): a call is in the direct-connection path only after a   *)
(* pool acquire timeout.                                                   *)
C8_FallbackOnlyOnAcquireTimeout ==
    \A t \in Tasks :
        task[t].pc \in FallbackPcs
            => task[t].firstFail = <<"acquire", "Timeout">>

(* C9: a query call whose pooled part failed with an error other than a    *)
(* timeout has ended raising exactly that error, without any               *)
(* direct-connection attempt.                                              *)
C9_OtherErrorsPropagate ==
    \A t \in Tasks :
        (/\ task[t].op \in QueryOps
         /\ task[t].firstFail # NoErr
         /\ task[t].firstFail[2] # "Timeout")
            => /\ task[t].pc = "done"
               /\ task[t].result = "err"
               /\ task[t].raised = task[t].firstFail
               /\ task[t].direct = 0
               /\ task[t].directFail = NoErr

(* A query has raised the non-timeout error of its pooled execution. *)
C9_Witness ==
    \E t \in Tasks :
        /\ task[t].op \in QueryOps
        /\ task[t].pc = "done"
        /\ task[t].raised = <<"exec", "Other">>

(* C10: the borrowed connections of a pool are exactly those of the calls  *)
(* executing on it and the open direct connections are exactly those of    *)
(* the calls between connect and the end of conn.close(); so when no call  *)
(* is in progress nothing is borrowed and no direct connection is open.    *)
C10_ScopedAcquisition ==
    /\ \A p \in Pools :
          borrowed[p] = Cardinality({t \in Tasks :
                                       /\ task[t].pc = "executing"
                                       /\ task[t].pool = p})
    /\ directOpen = Cardinality({t \in Tasks :
                                   task[t].pc \in {"direct_executing",
                                                   "direct_closing"}})
    /\ Quiescent => directOpen = 0 /\ \A p \in Pools : borrowed[p] = 0

(* No call is in progress, one has ended by a failed pooled execution and  *)
(* one by a failed execution on a direct connection.                       *)
C10_Witness ==
    /\ Quiescent
    /\ \E t, u \in Tasks :
          /\ task[t].raised[1] = "exec"
          /\ task[u].raised[1] = "direct_exec"

(* C11 (as claimed): a call in which an underlying operation failed and    *)
(* which was not recovered by the direct-connection fallback has ended by  *)
(* raising an error.                                                       *)
C11_NoFailureDiscarded ==
    \A t \in Tasks :
        (/\ task[t].pc = "done"
         /\ \/ task[t].firstFail # NoErr
            \/ task[t].directFail # NoErr)
            => task[t].result = "err"

(* C16 (as claimed): every pool that is open is the one the singleton      *)
(* reference designates, so at most one open pool exists and none is       *)
(* unreachable.                                                            *)
C16_NoLeakedPool ==
    \A p \in Pools : poolState[p] = "open" => GLOBAL_POOL = p


(***************************************************************************)
(* pagination(current_page, total_pages, total_items, page_size, ...,   *)
(* page_info): the text of the "Showing ..." line it renders.              *)
(***************************************************************************)
MaxPage == 8
PageSizes == {1, 10, 20}
TotalItems == {0, 1, 19, 20, 21, 40, 144, 160, 161}
(* page_info: absent, or some caller-supplied text (token 1). *)
PageInfos == {None, 1}

PageInputs ==
    [fn : {"pagination"}, current_page : 1..MaxPage,
     page_size : PageSizes, total_items : TotalItems, page_info : PageInfos]

(* (current_page - 1) * page_size + 1 *)
DisplayStart(in) == (in.current_page - 1) * in.page_size + 1

(* rx.cond(current_page * page_size > total_items, total_items,            *)
(*         current_page * page_size)                                       *)
DisplayEndUncapped(in) == in.current_page * in.page_size

DisplayEnd(in) ==
    IF in.current_page * in.page_size > in.total_items
        THEN in.total_items
        ELSE in.current_page * in.page_size

(* The pieces the f-string puts after "Showing ": the caller's page_info   *)
(* when one is given, else "<start>-<end> of <total>".                     *)
DisplayInfo(in) ==
    IF in.page_info # None
        THEN [kind |-> "display", custom |-> TRUE, info |-> in.page_info]
        ELSE [kind |-> "display", custom |-> FALSE,
              start |-> DisplayStart(in), end |-> DisplayEnd(in),
              of |-> in.total_items]

PageInit ==
    /\ dsn = TRUE
    /\ GLOBAL_POOL = None
    /\ lockHolder = None
    /\ lockWaiters = <<>>
    /\ poolState = [p \in Pools |-> "unbuilt"]
    /\ borrowed = [p \in Pools |-> 0]
    /\ directOpen = 0
    /\ task = [t \in Tasks |-> IdleFrame]
    /\ fnIn \in PageInputs
    /\ fnOut = NoOutput

Pagination ==
    /\ fnIn.fn = "pagination"
    /\ fnOut = NoOutput
    /\ fnOut' = DisplayInfo(fnIn)
    /\ UNCHANGED <<dsn, GLOBAL_POOL, lockHolder, lockWaiters, poolState,
                   borrowed, directOpen, task, fnIn>>

PageNext == Pagination

PageSpec == PageInit /\ [][PageNext]_vars

(* C15: when no page_info is supplied, the displayed range runs from       *)
(* (current_page - 1) * page_size + 1 to min(current_page * page_size,     *)
(* total_items): the upper bound never exceeds total_items and never       *)
(* exceeds current_page * page_size; with page_size 20 and 144 items page  *)
(* 2 shows 21-40 of 144 and page 8 shows 141-144 of 144.                   *)
C15_RangeCappedAtTotal ==
    (fnOut.kind = "display" /\ fnIn.page_info = None) =>
        /\ ~fnOut.custom
        /\ fnOut.start = (fnIn.current_page - 1) * fnIn.page_size + 1
        /\ fnOut.end <= fnIn.total_items
        /\ fnOut.end <= fnIn.current_page * fnIn.page_size
        /\ fnOut.end \in {fnIn.total_items, fnIn.current_page * fnIn.page_size}
        /\ fnOut.of = fnIn.total_items
        /\ (fnIn.page_size = 20 /\ fnIn.total_items = 144) =>
              /\ fnIn.current_page = 2 => (fnOut.start = 21 /\ fnOut.end = 40)
              /\ fnIn.current_page = 8 => (fnOut.start = 141 /\ fnOut.end = 144)

C15_Witness ==
    /\ fnOut.kind = "display"
    /\ fnIn.page_info = None
    /\ fnIn.current_page = 8
    /\ fnIn.page_size = 20
    /\ fnIn.total_items = 144
    /\ fnOut.end = 144

(***************************************************************************)
(* q and execute_query, one call on its own: the arguments, the outcome of *)
(* each awaited operation and the clock reading are inputs; the phases the *)
(* call passes through, what it hands to fetch/execute, what it logs and   *)
(* how it ends are the output.                                             *)
(***************************************************************************)

(* params is a tuple (vals, in order) or a dict (keys[i] maps to vals[i],  *)
(* in insertion order).  Values are opaque and named by their literals.    *)
ParamInputs ==
    { [dict |-> FALSE, keys |-> <<>>, vals |-> <<>>],
      [dict |-> FALSE, keys |-> <<>>, vals |-> <<"7", "X">>],
      [dict |-> TRUE,  keys |-> <<>>, vals |-> <<>>],
      [dict |-> TRUE,  keys |-> <<"days">>, vals |-> <<"7">>],
      [dict |-> TRUE,  keys |-> <<"days", "tag">>, vals |-> <<"7", "X">>],
      [dict |-> TRUE,  keys |-> <<"tag", "days">>, vals |-> <<"X", "7">>] }

(* A tuple holding the values vs. *)
Tuple(vs) == [dict |-> FALSE, keys |-> <<>>, vals |-> vs]

(* elapsed, in milliseconds; the code compares seconds with 1.0 *)
SlowThreshold == 1000
ElapsedInputs == {SlowThreshold - 1, SlowThreshold, SlowThreshold + 1}

CallInputs ==
    [fn : QueryOps, params : ParamInputs,
     gp : AwaitOutcomes \cup {"Config"},
     acq : AwaitOutcomes, ex : AwaitOutcomes,
     con : AwaitOutcomes, dex : AwaitOutcomes,
     elapsed : ElapsedInputs]

(* isinstance(params, dict) *)
IsDict(ps) == ps.dict

(* tuple(params.values()) *)
Values(ps) == ps.vals

(* iterating a dict yields its keys *)
Keys(ps) == ps.keys

(* if isinstance(params, dict):                                            *)
(*     params = tuple(params.values()) if params else ()                   *)
Normalize(ps) ==
    IF IsDict(ps)
        THEN IF Keys(ps) # <<>> THEN Tuple(Values(ps)) ELSE Tuple(<<>>)
        ELSE ps

(* *params in the call conn.fetch(sql, *params, timeout=timeout) *)
Star(ps) == IF IsDict(ps) THEN Keys(ps) ELSE ps.vals

(* elapsed > 1.0 *)
IsSlow(el) == el > SlowThreshold

Outcome(in, phases, sent, result, raised, value, slow) ==
    [kind |-> "call", fn |-> in.fn, phases |-> phases, sent |-> sent,
     result |-> result, raised |-> raised, value |-> value,
     slowWarned |-> slow]

(* q, the try body (lines 71-95): where it stopped, what it sent, the      *)
(* binding of params it leaves and the exception it raised, if any.        *)
QPooled(in) ==
    IF in.gp # "ok"
        THEN [phases |-> <<"get_pool">>, sent |-> <<>>,
              params |-> in.params, exc |-> <<"get_pool", in.gp>>]
        ELSE LET ps == Normalize(in.params) IN
            IF in.acq # "ok"
                THEN [phases |-> <<"get_pool", "acquire">>, sent |-> <<>>,
                      params |-> ps, exc |-> <<"acquire", in.acq>>]
                ELSE [phases |-> <<"get_pool", "acquire", "execute">>,
                      sent |-> << <<"pooled", Star(ps)>> >>,
                      params |-> ps,
                      exc |-> IF in.ex # "ok" THEN <<"exec", in.ex>>
                                              ELSE NoErr]

(* q, the except asyncio.TimeoutError clause (lines 97-115) *)
QFallback(in, pr) ==
    IF in.con # "ok"
        THEN Outcome(in, pr.phases \o <<"connect", "propagate">>, pr.sent,
                     "err", <<"connect", in.con>>, "none", FALSE)
        ELSE LET sent == Append(pr.sent, <<"direct", Star(pr.params)>>) IN
            IF in.dex # "ok"
                THEN Outcome(in,
                             pr.phases \o <<"connect", "direct_execute",
                                            "direct_close", "propagate">>,
                             sent, "err", <<"direct_exec", in.dex>>,
                             "none", FALSE)
                ELSE Outcome(in,
                             pr.phases \o <<"connect", "direct_execute",
                                            "direct_close", "return">>,
                             sent, "ok", NoErr, "rows", FALSE)

(* q (lines 66-121) *)
Q(in) ==
    LET pr == QPooled(in) IN
        IF pr.exc = NoErr
            THEN Outcome(in, Append(pr.phases, "return"), pr.sent,
                         "ok", NoErr, "rows", IsSlow(in.elapsed))
        ELSE IF pr.exc[2] = "Timeout"
            THEN QFallback(in, pr)
        ELSE Outcome(in, Append(pr.phases, "propagate"), pr.sent,
                     "err", pr.exc, "none", FALSE)

(* execute_query, the try body (lines 129-145) *)
ExecutePooled(in) ==
    IF in.gp # "ok"
        THEN [phases |-> <<"get_pool">>, sent |-> <<>>,
              params |-> in.params, exc |-> <<"get_pool", in.gp>>]
        ELSE LET ps == Normalize(in.params) IN
            IF in.acq # "ok"
                THEN [phases |-> <<"get_pool", "acquire">>, sent |-> <<>>,
                      params |-> ps, exc |-> <<"acquire", in.acq>>]
                ELSE [phases |-> <<"get_pool", "acquire", "execute">>,
                      sent |-> << <<"pooled", Star(ps)>> >>,
                      params |-> ps,
                      exc |-> IF in.ex # "ok" THEN <<"exec", in.ex>>
                                              ELSE NoErr]

(* execute_query, the except asyncio.TimeoutError clause (lines 147-163) *)
ExecuteFallback(in, pr) ==
    IF in.con # "ok"
        THEN Outcome(in, pr.phases \o <<"connect", "propagate">>, pr.sent,
                     "err", <<"connect", in.con>>, "none", FALSE)
        ELSE LET sent == Append(pr.sent, <<"direct", Star(pr.params)>>) IN
            IF in.dex # "ok"
                THEN Outcome(in,
                             pr.phases \o <<"connect", "direct_execute",
                                            "direct_close", "propagate">>,
                             sent, "err", <<"direct_exec", in.dex>>,
                             "none", FALSE)
                ELSE Outcome(in,
                             pr.phases \o <<"connect", "direct_execute",
                                            "direct_close", "return">>,
                             sent, "ok", NoErr, "none", FALSE)

(* execute_query with its timeout clause removed *)
ExecuteQueryNoFallback(in) ==
    LET pr == ExecutePooled(in) IN
        IF pr.exc = NoErr
            THEN Outcome(in, Append(pr.phases, "return"), pr.sent,
                         "ok", NoErr, "none", IsSlow(in.elapsed))
            ELSE Outcome(in, Append(pr.phases, "propagate"), pr.sent,
                         "err", pr.exc, "none", FALSE)

(* execute_query (lines 124-169) *)
ExecuteQuery(in) ==
    LET pr == ExecutePooled(in) IN
        IF pr.exc = NoErr
            THEN Outcome(in, Append(pr.phases, "return"), pr.sent,
                         "ok", NoErr, "none", IsSlow(in.elapsed))
        ELSE IF pr.exc[2] = "Timeout"
            THEN ExecuteFallback(in, pr)
        ELSE Outcome(in, Append(pr.phases, "propagate"), pr.sent,
                     "err", pr.exc, "none", FALSE)

CallInit ==
    /\ dsn = TRUE
    /\ GLOBAL_POOL = None
    /\ lockHolder = None
    /\ lockWaiters = <<>>
    /\ poolState = [p \in Pools |-> "unbuilt"]
    /\ borrowed = [p \in Pools |-> 0]
    /\ directOpen = 0
    /\ task = [t \in Tasks |-> IdleFrame]
    /\ fnIn \in CallInputs
    /\ fnOut = NoOutput

QCall ==
    /\ fnIn.fn = "q"
    /\ fnOut = NoOutput
    /\ fnOut' = Q(fnIn)
    /\ UNCHANGED <<dsn, GLOBAL_POOL, lockHolder, lockWaiters, poolState,
                   borrowed, directOpen, task, fnIn>>

ExecuteQueryCall ==
    /\ fnIn.fn = "execute_query"
    /\ fnOut = NoOutput
    /\ fnOut' = ExecuteQuery(fnIn)
    /\ UNCHANGED <<dsn, GLOBAL_POOL, lockHolder, lockWaiters, poolState,
                   borrowed, directOpen, task, fnIn>>

CallNext == QCall \/ ExecuteQueryCall

CallSpec == CallInit /\ [][CallNext]_vars

(* The call passed through phase ph. *)
InPhases(out, ph) == \E i \in 1..Len(out.phases) : out.phases[i] = ph

(* C12 (as claimed): whatever q or execute_query hands to an execution, on *)
(* a pooled or on a direct connection, is the sequence of the mapping's    *)
(* values in the mapping's order when params is a mapping (the empty       *)
(* sequence for an empty mapping) and the tuple itself when it is a tuple. *)
C12_MappingValuesInOrder ==
    fnOut.kind = "call" =>
        \A i \in 1..Len(fnOut.sent) : fnOut.sent[i][2] = fnIn.params.vals

(* C13 (as claimed): a q call that returns rows has emitted the slow-query *)
(* warning exactly when its elapsed time exceeds one second, on the pooled *)
(* and on the fallback path alike.                                         *)
C13_SlowWarningIffSlow ==
    (fnOut.kind = "call" /\ fnOut.fn = "q" /\ fnOut.result = "ok") =>
        /\ fnOut.value = "rows"
        /\ fnOut.slowWarned <=> (fnIn.elapsed > SlowThreshold)

(* C14: for the same outcomes of get_pool, acquire, execution and direct   *)
(* connect, execute_query passes through the same phases as q, hands over  *)
(* the same parameters and ends the same way (normal return, or the same   *)
(* error raised); only q returns rows.                                     *)
C14_SameDisciplineAsQ ==
    (fnOut.kind = "call" /\ fnOut.fn = "execute_query") =>
        LET asq == Q(fnIn) IN
            /\ fnOut.phases = asq.phases
            /\ fnOut.result = asq.result
            /\ fnOut.raised = asq.raised
            /\ fnOut.sent = asq.sent
            /\ fnOut.slowWarned = asq.slowWarned
            /\ fnOut.value = "none"
            /\ asq.value = "rows" <=> asq.result = "ok"

C14_Witness ==
    /\ fnOut.kind = "call"
    /\ fnOut.fn = "execute_query"
    /\ InPhases(fnOut, "direct_execute")
    /\ fnOut.result = "ok"

(* C17 (as claimed): a call that takes the direct-connection fallback      *)
(* hands to the direct execution the positional sequence the pooled path   *)
(* would have handed over, wherever the timeout was raised.                *)
C17_FallbackSameParameters ==
    fnOut.kind = "call" =>
        \A i \in 1..Len(fnOut.sent) :
            fnOut.sent[i][1] = "direct"
                => fnOut.sent[i][2] = Star(Normalize(fnIn.params))

(* C18 (as claimed): a call goes get_pool, acquire, execute, return; or    *)
(* acquire timeout, direct connect, execute, return; or ends by            *)
(* propagating an error; and it submits its statement at most once.        *)
C18_OnePathOneSubmission ==
    fnOut.kind = "call" =>
        /\ Len(fnOut.sent) <= 1
        /\ \/ fnOut.phases = <<"get_pool", "acquire", "execute", "return">>
           \/ fnOut.phases = <<"get_pool", "acquire", "connect",
                               "direct_execute", "direct_close", "return">>
           \/ fnOut.phases[Len(fnOut.phases)] = "propagate"
====
